---- MODULE Spec2Model ----
(***************************************************************************)
(* Model of detray's coordinate frames (coordinate_base, cartesian2) and   *)
(* of the regular grid axes (axis::closed, axis::circular).                *)
(*                                                                         *)
(* Scalars are exact rationals <<n, d>> in lowest terms with d > 0; a      *)
(* denominator of 0 stands for the non-finite results of a division by     *)
(* zero: <<1, 0>> is +inf, <<-1, 0>> is -inf and <<0, 0>> is NaN.  Angles  *)
(* are taken from a table of thirteen directions -pi .. pi whose sine and  *)
(* cosine are rational (the 3-4-5 triangle), so that every product,        *)
(* quotient, square root and atan2 of the code is computed exactly.        *)
(***************************************************************************)
EXTENDS Integers, Sequences, FiniteSets, TLC

\* ------------------------------------------------------------------ bounds
\* Local coordinates are 0 .. MaxCoord and -1/2; axis values reach MaxCoord + 2
\* on either side of 0.
MaxCoord == 1
\* Number of threads that share one surface in SpecConc.
NThreads == 2
\* The largest neighbourhood size handed to range.
MaxNhood == 2

\* ------------------------------------------------------- scalar arithmetic
Abs(n) == IF n < 0 THEN -n ELSE n
Sgn(n) == IF n < 0 THEN -1 ELSE IF n > 0 THEN 1 ELSE 0

RECURSIVE Gcd(_, _)
Gcd(a, b) == IF b = 0 THEN a ELSE Gcd(b, a % b)

\* The scalar n/d; n/0 is the IEEE result of the division (inf, -inf, NaN).
Norm(n, d) ==
  IF d = 0 THEN <<Sgn(n), 0>>
  ELSE LET g == Gcd(Abs(n), Abs(d))
       IN  <<(Sgn(d) * n) \div g, Abs(d) \div g>>

Zero == <<0, 1>>
One == <<1, 1>>
NaN == <<0, 0>>
R(n) == <<n, 1>>

IsFinite(x) == x[2] # 0

Neg(x) == <<-x[1], x[2]>>
Mul(x, y) == Norm(x[1] * y[1], x[2] * y[2])
Div(x, y) == Norm(x[1] * y[2] * (IF y[1] < 0 THEN -1 ELSE 1), x[2] * Abs(y[1]))
Add(x, y) ==
  IF x[2] = 0 /\ y[2] = 0 THEN (IF x = y THEN x ELSE NaN)
  ELSE IF x[2] = 0 THEN x
  ELSE IF y[2] = 0 THEN y
  ELSE Norm(x[1] * y[2] + y[1] * x[2], x[2] * y[2])
Sub(x, y) == Add(x, Neg(y))
Less(x, y) == x[1] * y[2] < y[1] * x[2]

\* std::sqrt on the squares of rationals (every radicand of the model is one).
ISqrt(n) == CHOOSE k \in 0..n : k * k = n
Sqrt(x) == <<ISqrt(x[1]), ISqrt(x[2])>>

\* ------------------------------------------------------------------ angles
\* Angle k of -6 .. 6 is the k-th direction of the table, counter-clockwise
\* from 0: 0, a, pi/2 - a, pi/2, pi/2 + a, pi - a, pi with a = atan(3/4);
\* -k is the mirror image, so -6 is -pi and 6 is pi.
Angles == -6..6
CosTable == <<R(1), Norm(4, 5), Norm(3, 5), R(0), Norm(-3, 5), Norm(-4, 5), R(-1)>>
SinTable == <<R(0), Norm(3, 5), Norm(4, 5), R(1), Norm(4, 5), Norm(3, 5), R(0)>>

Cos(a) == CosTable[Abs(a) + 1]
Sin(a) == IF a < 0 THEN Neg(SinTable[-a + 1]) ELSE SinTable[a + 1]

\* std::atan2(y, x): the angle of (-pi, pi] whose direction is (x, y);
\* atan2(0, 0) = 0.
Atan2(y, x) ==
  IF x = Zero /\ y = Zero THEN 0
  ELSE CHOOSE a \in -5..6 :
         /\ Mul(Cos(a), y) = Mul(Sin(a), x)
         /\ Less(Zero, Add(Mul(Cos(a), x), Mul(Sin(a), y)))

\* ---------------------------------------------------- vectors and matrices
\* point2, point3, vector3: arrays indexed from 0.
Arr2(a, b) == [i \in 0..1 |-> IF i = 0 THEN a ELSE b]
Arr3(a, b, c) == [i \in 0..2 |-> IF i = 0 THEN a ELSE IF i = 1 THEN b ELSE c]

\* matrix_type<ROWS, COLS>: m[row][col], both indexed from 0.
zero(rows, cols) == [i \in 0..(rows - 1) |-> [j \in 0..(cols - 1) |-> Zero]]
element(m, i, j) == m[i][j]
block(m, rows, cols, r0, c0) ==
  [i \in 0..(rows - 1) |-> [j \in 0..(cols - 1) |-> m[r0 + i][c0 + j]]]
set_block(m, b, r0, c0) ==
  [i \in DOMAIN m |-> [j \in DOMAIN m[i] |->
     IF (i - r0) \in DOMAIN b /\ (j - c0) \in DOMAIN b[0]
     THEN b[i - r0][j - c0] ELSE m[i][j]]]
transpose(m) == [j \in DOMAIN m[0] |-> [i \in DOMAIN m |-> m[i][j]]]
Rows3(r0, r1, r2) == [i \in 0..2 |-> IF i = 0 THEN r0 ELSE IF i = 1 THEN r1 ELSE r2]

\* vector::dot of a 3x1 column and a vector3.
dot(col, v) ==
  Add(Add(Mul(col[0][0], v[0]), Mul(col[1][0], v[1])), Mul(col[2][0], v[2]))

\* --------------------------------------------------------------- transform3
\* A transform3 is [rot |-> 3x3 matrix, tra |-> vector3].
rotation(trf3) == trf3.rot

MatVec(m, p) ==
  [i \in 0..2 |-> Add(Add(Mul(m[i][0], p[0]), Mul(m[i][1], p[1])), Mul(m[i][2], p[2]))]

Det3(m) ==
  Add(Sub(Mul(m[0][0], Sub(Mul(m[1][1], m[2][2]), Mul(m[1][2], m[2][1]))),
          Mul(m[0][1], Sub(Mul(m[1][0], m[2][2]), Mul(m[1][2], m[2][0])))),
      Mul(m[0][2], Sub(Mul(m[1][0], m[2][1]), Mul(m[1][1], m[2][0]))))

\* The inverse the transform stores beside its matrix: adjugate / determinant.
Inverse3(m) ==
  LET det == Det3(m)
      cof(i, j) ==
        LET r1 == (i + 1) % 3
            r2 == (i + 2) % 3
            c1 == (j + 1) % 3
            c2 == (j + 2) % 3
        IN  Sub(Mul(m[r1][c1], m[r2][c2]), Mul(m[r1][c2], m[r2][c1]))
  IN  [i \in 0..2 |-> [j \in 0..2 |-> Div(cof(j, i), det)]]

point_to_global(trf3, p) ==
  LET q == MatVec(trf3.rot, p)
  IN  [i \in 0..2 |-> Add(q[i], trf3.tra[i])]

point_to_local(trf3, p) ==
  MatVec(Inverse3(trf3.rot), [i \in 0..2 |-> Sub(p[i], trf3.tra[i])])

\* ------------------------------------------------------------------- getter
getter_perp(v) == Sqrt(Add(Mul(v[0], v[0]), Mul(v[1], v[1])))
getter_phi(v) == Atan2(v[1], v[0])
getter_theta(v) == Atan2(getter_perp(v), v[2])

\* ----------------------------------------------------- track parametrization
e_bound_loc0 == 0
e_bound_loc1 == 1
e_bound_phi == 2
e_bound_theta == 3
e_bound_time == 4
e_bound_qoverp == 5
e_bound_size == 6
e_free_pos0 == 0
e_free_pos1 == 1
e_free_pos2 == 2
e_free_time == 3
e_free_dir0 == 4
e_free_dir1 == 5
e_free_dir2 == 6
e_free_qoverp == 7
e_free_size == 8

\* A bound_vector / free_vector from its components (an Nx1 matrix).
Column(seq) == [i \in 0..(Len(seq) - 1) |-> [j \in 0..0 |-> seq[i + 1]]]

\* ------------------------------------------------------------- track_helper
track_pos(free_vec) ==
  Arr3(element(free_vec, e_free_pos0, 0), element(free_vec, e_free_pos1, 0),
       element(free_vec, e_free_pos2, 0))
track_dir_free(free_vec) ==
  Arr3(element(free_vec, e_free_dir0, 0), element(free_vec, e_free_dir1, 0),
       element(free_vec, e_free_dir2, 0))
track_local(bound_vec) ==
  Arr2(element(bound_vec, e_bound_loc0, 0), element(bound_vec, e_bound_loc1, 0))
track_dir_bound(bound_vec) ==
  LET ph == element(bound_vec, e_bound_phi, 0)
      th == element(bound_vec, e_bound_theta, 0)
  IN  Arr3(Mul(Cos(ph), Sin(th)), Mul(Sin(ph), Sin(th)), Cos(th))

\* ---------------------------------------------------------------- cartesian2
\* operator()(const point3 &): a 3D local point to a 2D local point.
project3(local3) == Arr2(local3[0], local3[1])

\* Faulty variant: the point is carried with the transform instead of its inverse.
global_to_local_forward(trf3, p, d) ==
  LET local3 == point_to_global(trf3, p)
  IN  project3(local3)

global_to_local(trf3, p, d) ==
  LET local3 == point_to_local(trf3, p)
  IN  project3(local3)

\* Faulty variant: the local point is embedded at z = 1 instead of z = 0.
local_to_global_offset(trf3, mask, p, d) ==
  point_to_global(trf3, Arr3(p[0], p[1], One))

local_to_global(trf3, mask, p, d) ==
  point_to_global(trf3, Arr3(p[0], p[1], Zero))

reference_frame(trf3, mask, pos, dir) == rotation(trf3)

\* Faulty variant: the block starts at the frame's column 1, not column 0.
bound_pos_to_free_pos_derivative_shifted(trf3, mask, pos, dir) ==
  LET frame == reference_frame(trf3, mask, pos, dir)
  IN  block(frame, 3, 2, 0, 1)

bound_pos_to_free_pos_derivative(trf3, mask, pos, dir) ==
  LET frame == reference_frame(trf3, mask, pos, dir)
  IN  block(frame, 3, 2, 0, 0)

\* Faulty variant: the block is cut from the frame itself, not from its transpose.
free_pos_to_bound_pos_derivative_untransposed(trf3, mask, pos, dir) ==
  LET frame == reference_frame(trf3, mask, pos, dir)
  IN  block(frame, 2, 3, 0, 0)

free_pos_to_bound_pos_derivative(trf3, mask, pos, dir) ==
  LET frame == reference_frame(trf3, mask, pos, dir)
      frameT == transpose(frame)
  IN  block(frameT, 2, 3, 0, 0)

\* ----------------------------------------------------------- coordinate_base
\* Faulty variant: time and qOverP are read from each other's slot.
free_to_bound_vector_swapped(trf3, free_vec) ==
  LET pos == track_pos(free_vec)
      dir == track_dir_free(free_vec)
      local == global_to_local(trf3, pos, dir)
  IN  [i \in 0..(e_bound_size - 1) |-> [j \in 0..0 |->
        IF i = e_bound_loc0 THEN local[0]
        ELSE IF i = e_bound_loc1 THEN local[1]
        ELSE IF i = e_bound_phi THEN getter_phi(dir)
        ELSE IF i = e_bound_theta THEN getter_theta(dir)
        ELSE IF i = e_bound_time THEN element(free_vec, e_free_qoverp, 0)
        ELSE element(free_vec, e_free_time, 0)]]

free_to_bound_vector(trf3, free_vec) ==
  LET pos == track_pos(free_vec)
      dir == track_dir_free(free_vec)
      local == global_to_local(trf3, pos, dir)
  IN  [i \in 0..(e_bound_size - 1) |-> [j \in 0..0 |->
        IF i = e_bound_loc0 THEN local[0]
        ELSE IF i = e_bound_loc1 THEN local[1]
        ELSE IF i = e_bound_phi THEN getter_phi(dir)
        ELSE IF i = e_bound_theta THEN getter_theta(dir)
        ELSE IF i = e_bound_time THEN element(free_vec, e_free_time, 0)
        ELSE element(free_vec, e_free_qoverp, 0)]]

bound_to_free_vector(trf3, mask, bound_vec) ==
  LET local == track_local(bound_vec)
      dir == track_dir_bound(bound_vec)
      pos == local_to_global(trf3, mask, local, dir)
  IN  [i \in 0..(e_free_size - 1) |-> [j \in 0..0 |->
        IF i = e_free_pos0 THEN pos[0]
        ELSE IF i = e_free_pos1 THEN pos[1]
        ELSE IF i = e_free_pos2 THEN pos[2]
        ELSE IF i = e_free_time THEN element(bound_vec, e_bound_time, 0)
        ELSE IF i = e_free_dir0 THEN dir[0]
        ELSE IF i = e_free_dir1 THEN dir[1]
        ELSE IF i = e_free_dir2 THEN dir[2]
        ELSE element(bound_vec, e_bound_qoverp, 0)]]

\* Writes of single elements, in the order of the code.
RECURSIVE set_elements(_, _)
set_elements(m, writes) ==
  IF writes = <<>> THEN m
  ELSE set_elements([m EXCEPT ![writes[1][1]][writes[1][2]] = writes[1][3]],
                    Tail(writes))

\* Faulty variant: the derivative of dir2 is written to the phi column.
bound_to_free_jacobian_dir2_phi(trf3, mask, bound_vec, pos) ==
  LET jac_to_global == zero(e_free_size, e_bound_size)
      th == element(bound_vec, e_bound_theta, 0)
      ph == element(bound_vec, e_bound_phi, 0)
      cos_theta == Cos(th)
      sin_theta == Sin(th)
      cos_phi == Cos(ph)
      sin_phi == Sin(ph)
      dir == track_dir_bound(bound_vec)
      derivative == bound_pos_to_free_pos_derivative(trf3, mask, pos, dir)
  IN  set_elements(
        set_block(jac_to_global, derivative, e_free_pos0, e_bound_loc0),
        << <<e_free_time, e_bound_time, One>>,
           <<e_free_dir0, e_bound_phi, Mul(Mul(R(-1), sin_theta), sin_phi)>>,
           <<e_free_dir0, e_bound_theta, Mul(cos_theta, cos_phi)>>,
           <<e_free_dir1, e_bound_phi, Mul(sin_theta, cos_phi)>>,
           <<e_free_dir1, e_bound_theta, Mul(cos_theta, sin_phi)>>,
           <<e_free_dir2, e_bound_phi, Mul(R(-1), sin_theta)>>,
           <<e_free_qoverp, e_bound_qoverp, One>> >>)

\* pos is track_helper().pos(bound_vec), which the planar frame never reads.
bound_to_free_jacobian(trf3, mask, bound_vec, pos) ==
  LET jac_to_global == zero(e_free_size, e_bound_size)
      th == element(bound_vec, e_bound_theta, 0)
      ph == element(bound_vec, e_bound_phi, 0)
      cos_theta == Cos(th)
      sin_theta == Sin(th)
      cos_phi == Cos(ph)
      sin_phi == Sin(ph)
      dir == track_dir_bound(bound_vec)
      derivative == bound_pos_to_free_pos_derivative(trf3, mask, pos, dir)
  IN  set_elements(
        set_block(jac_to_global, derivative, e_free_pos0, e_bound_loc0),
        << <<e_free_time, e_bound_time, One>>,
           <<e_free_dir0, e_bound_phi, Mul(Mul(R(-1), sin_theta), sin_phi)>>,
           <<e_free_dir0, e_bound_theta, Mul(cos_theta, cos_phi)>>,
           <<e_free_dir1, e_bound_phi, Mul(sin_theta, cos_phi)>>,
           <<e_free_dir1, e_bound_theta, Mul(cos_theta, sin_phi)>>,
           <<e_free_dir2, e_bound_theta, Mul(R(-1), sin_theta)>>,
           <<e_free_qoverp, e_bound_qoverp, One>> >>)

\* Faulty variants of free_to_bound_jacobian: "sign" drops the
\* -1 of (phi, dir0); "guard" divides by 1 where sin(theta) is 0.
free_to_bound_jacobian_variant(trf3, mask, free_vec, variant) ==
  LET jac_to_local == zero(e_bound_size, e_free_size)
      pos == track_pos(free_vec)
      dir == track_dir_free(free_vec)
      th == getter_theta(dir)
      ph == getter_phi(dir)
      cos_theta == Cos(th)
      sin_theta == IF variant = "guard" /\ Sin(th) = Zero THEN One ELSE Sin(th)
      cos_phi == Cos(ph)
      sin_phi == Sin(ph)
      minus == IF variant = "sign" THEN R(1) ELSE R(-1)
      derivative == free_pos_to_bound_pos_derivative(trf3, mask, pos, dir)
  IN  set_elements(
        set_block(jac_to_local, derivative, e_bound_loc0, e_free_pos0),
        << <<e_bound_time, e_free_time, One>>,
           <<e_bound_phi, e_free_dir0, Div(Mul(minus, sin_phi), sin_theta)>>,
           <<e_bound_phi, e_free_dir1, Div(cos_phi, sin_theta)>>,
           <<e_bound_theta, e_free_dir0, Mul(cos_phi, cos_theta)>>,
           <<e_bound_theta, e_free_dir1, Mul(sin_phi, cos_theta)>>,
           <<e_bound_theta, e_free_dir2, Mul(R(-1), sin_theta)>>,
           <<e_bound_qoverp, e_free_qoverp, One>> >>)

\* Faulty variant: (phi, dir0) loses its sign.
free_to_bound_jacobian_sign(trf3, mask, free_vec) ==
  free_to_bound_jacobian_variant(trf3, mask, free_vec, "sign")

\* Faulty variant: a guard replaces sin(theta) = 0 by 1 before the division.
free_to_bound_jacobian_guarded(trf3, mask, free_vec) ==
  free_to_bound_jacobian_variant(trf3, mask, free_vec, "guard")

free_to_bound_jacobian(trf3, mask, free_vec) ==
  LET jac_to_local == zero(e_bound_size, e_free_size)
      pos == track_pos(free_vec)
      dir == track_dir_free(free_vec)
      th == getter_theta(dir)
      ph == getter_phi(dir)
      cos_theta == Cos(th)
      sin_theta == Sin(th)
      cos_phi == Cos(ph)
      sin_phi == Sin(ph)
      derivative == free_pos_to_bound_pos_derivative(trf3, mask, pos, dir)
  IN  set_elements(
        set_block(jac_to_local, derivative, e_bound_loc0, e_free_pos0),
        << <<e_bound_time, e_free_time, One>>,
           <<e_bound_phi, e_free_dir0, Div(Mul(R(-1), sin_phi), sin_theta)>>,
           <<e_bound_phi, e_free_dir1, Div(cos_phi, sin_theta)>>,
           <<e_bound_theta, e_free_dir0, Mul(cos_phi, cos_theta)>>,
           <<e_bound_theta, e_free_dir1, Mul(sin_phi, cos_theta)>>,
           <<e_bound_theta, e_free_dir2, Mul(R(-1), sin_theta)>>,
           <<e_bound_qoverp, e_free_qoverp, One>> >>)

\* Faulty variant: the frame's y axis (column 1) is taken for its z axis.
free_to_path_correction_y_axis(trf3, mask, free_vec) ==
  LET free_to_path == zero(1, e_free_size)
      pos == track_pos(free_vec)
      dir == track_dir_free(free_vec)
      frame == reference_frame(trf3, mask, pos, dir)
      ref_z_axis == block(frame, 3, 1, 0, 1)
      dz == dot(ref_z_axis, dir)
      axisT == transpose(ref_z_axis)
      correction_term == [i \in 0..0 |-> [j \in 0..2 |->
                            Mul(Div(R(-1), dz), axisT[i][j])]]
  IN  set_block(free_to_path, correction_term, 0, e_free_pos0)

free_to_path_correction(trf3, mask, free_vec) ==
  LET free_to_path == zero(1, e_free_size)
      pos == track_pos(free_vec)
      dir == track_dir_free(free_vec)
      frame == reference_frame(trf3, mask, pos, dir)
      ref_z_axis == block(frame, 3, 1, 0, 2)
      dz == dot(ref_z_axis, dir)
      axisT == transpose(ref_z_axis)
      correction_term == [i \in 0..0 |-> [j \in 0..2 |->
                            Mul(Div(R(-1), dz), axisT[i][j])]]
  IN  set_block(free_to_path, correction_term, 0, e_free_pos0)

\* --------------------------------------------------------------- axis::closed
\* static_cast<optional_index>(x): the conversion to a signed integer drops
\* the fraction (rounds toward zero).
to_optional_index(x) ==
  IF x[1] >= 0 THEN x[1] \div x[2] ELSE -((-x[1]) \div x[2])

\* An axis is [min |-> _min, max |-> _max, kDIM |-> bins].
raw_bin(ax, v) ==
  to_optional_index(Mul(Div(Sub(v, ax.min), Sub(ax.max, ax.min)), R(ax.kDIM)))

\* Faulty variant: the overflow bin is not pulled back to the last bin.
closed_bin_overflow(ax, v) ==
  LET ibin == raw_bin(ax, v)
  IN  IF ibin >= 0 /\ ibin < ax.kDIM THEN ibin
      ELSE IF ibin < 0 THEN 0
      ELSE ax.kDIM

closed_bin(ax, v) ==
  LET ibin == raw_bin(ax, v)
  IN  IF ibin >= 0 /\ ibin < ax.kDIM THEN ibin
      ELSE IF ibin < 0 THEN 0
      ELSE ax.kDIM - 1

\* unsigned int arithmetic: an int operand meeting an unsigned int operand is
\* converted to unsigned int, and the result is taken modulo 2^32. The 32-bit
\* value is kept as <<high 16 bits, low 16 bits>>.
unsigned_int(x) == <<(x \div (2 ^ 16)) % (2 ^ 16), x % (2 ^ 16)>>

unsigned_less(a, b) == a[1] < b[1] \/ (a[1] = b[1] /\ a[2] < b[2])

\* closed::range: ibin is an optional_index (int), nhood and kDIM are
\* unsigned int, so ibin - nhood and ibin + nhood are unsigned int values and
\* both comparisons are made on them. The guaranteed_index results keep the
\* unsigned values.
closed_range(ax, v, nhood) ==
  LET ibin == raw_bin(ax, v)
      lower == unsigned_int(ibin - nhood)
      upper == unsigned_int(ibin + nhood)
      min_bin == IF ~unsigned_less(lower, unsigned_int(0))
                 THEN lower ELSE unsigned_int(0)
      max_bin == IF unsigned_less(upper, unsigned_int(ax.kDIM))
                 THEN upper ELSE unsigned_int(ax.kDIM - 1)
  IN  <<min_bin, max_bin>>

\* ------------------------------------------------------------- axis::circular
\* circular::bin: kDIM + ibin and kDIM - ibin are unsigned int values.
circular_bin(ax, v) ==
  LET ibin == raw_bin(ax, v)
  IN  IF ibin >= 0 /\ ibin < ax.kDIM THEN unsigned_int(ibin)
      ELSE IF ibin < 0 THEN unsigned_int(ax.kDIM + ibin)
      ELSE unsigned_int(ax.kDIM - ibin)

\* ------------------------------------------------------------------- inputs
Coords == {R(k) : k \in 0..MaxCoord} \cup {Norm(-1, 2)}
Points2 == {Arr2(a, b) : a \in Coords, b \in Coords}
Points3 == {Arr3(R(0), R(0), R(0)), Arr3(R(1), R(-2), Norm(1, 2))}

\* Rigid surface placements: the identity, a rotation about z by atan(3/4),
\* a rotation about a skew axis, and a cyclic permutation of the axes.
Identity3 == Rows3(Arr3(R(1), R(0), R(0)), Arr3(R(0), R(1), R(0)), Arr3(R(0), R(0), R(1)))
Transforms ==
  { [rot |-> Identity3, tra |-> Arr3(R(0), R(0), R(0))],
    [rot |-> Rows3(Arr3(Norm(4, 5), Norm(-3, 5), R(0)),
                   Arr3(Norm(3, 5), Norm(4, 5), R(0)),
                   Arr3(R(0), R(0), R(1))),
     tra |-> Arr3(R(1), R(-2), R(3))],
    [rot |-> Rows3(Arr3(Norm(1, 3), Norm(2, 3), Norm(-2, 3)),
                   Arr3(Norm(2, 3), Norm(1, 3), Norm(2, 3)),
                   Arr3(Norm(2, 3), Norm(-2, 3), Norm(-1, 3))),
     tra |-> Arr3(R(0), R(5), R(-1))],
    [rot |-> Rows3(Arr3(R(0), R(0), R(1)), Arr3(R(1), R(0), R(0)), Arr3(R(0), R(1), R(0))),
     tra |-> Arr3(R(-3), R(0), Norm(1, 2))] }
Masks == {"rectangle", "annulus"}

\* theta of [0, pi] (the poles included), phi of [-pi, pi].
Thetas == {a \in Angles : a >= 0}
TimeCharge == {<<R(0), R(-1)>>, <<R(5), Norm(1, 100)>>}

BoundVectors ==
  {Column(<<l0, l1, ph, th, tq[1], tq[2]>>) :
     l0 \in Coords, l1 \in Coords, ph \in Angles, th \in Thetas, tq \in TimeCharge}

UnitDir(ph, th) == Arr3(Mul(Cos(ph), Sin(th)), Mul(Sin(ph), Sin(th)), Cos(th))
Directions == {UnitDir(ph, th) : ph \in Angles, th \in Thetas}

FreeVectors ==
  {Column(<<p[0], p[1], p[2], tq[1], d[0], d[1], d[2], tq[2]>>) :
     p \in Points3, d \in Directions, tq \in TimeCharge}

PointDirs == {UnitDir(0, 3), UnitDir(2, 1), UnitDir(-4, 6)}

\* Axes with _min < _max, and values below, inside, on the edges of and
\* above their ranges.
ClosedAxes ==
  { [min |-> R(-1), max |-> R(1), kDIM |-> 4],
    [min |-> R(0), max |-> Norm(3, 2), kDIM |-> 3],
    [min |-> Norm(-1, 2), max |-> R(2), kDIM |-> 1],
    [min |-> R(-2), max |-> R(-1), kDIM |-> 5] }
CircularAxes ==
  { [min |-> R(-1), max |-> R(1), kDIM |-> 4],
    [min |-> R(0), max |-> Norm(3, 2), kDIM |-> 3],
    [min |-> R(-3), max |-> R(3), kDIM |-> 2] }
AxisValues ==
  {Norm(k, 2) : k \in (-2 * MaxCoord - 4)..(2 * MaxCoord + 4)}
  \cup {Norm(k, 3) : k \in (-3 * MaxCoord - 4)..(3 * MaxCoord + 4)}

\* What a caller hands to the library: a local point and a direction, a bound
\* vector, or a free vector.
Inputs ==
  {[kind |-> "point", p |-> p, d |-> d] : p \in Points2, d \in PointDirs}
  \cup {[kind |-> "bound", bound_vec |-> b] : b \in BoundVectors}
  \cup {[kind |-> "free", free_vec |-> f] : f \in FreeVectors}
  \cup {[kind |-> "axis", axis |-> ax, v |-> v] : ax \in ClosedAxes, v \in AxisValues}
  \cup {[kind |-> "circular", axis |-> ax, v |-> v] :
          ax \in CircularAxes, v \in AxisValues}

\* -------------------------------------------------------------------- state
VARIABLES
  trf3,   \* the surface's transform, shared by every call
  mask,   \* the surface's mask, shared by every call
  input,  \* the caller's argument
  call,   \* the last call made: its name and what it returned
  tpc,    \* per thread: "idle", "called" (inside a call) or "returned"
  targ,   \* per thread: the call it makes, [op, vec]
  tret    \* per thread: what its call returned

threads == <<tpc, targ, tret>>
vars == <<trf3, mask, input, call, tpc, targ, tret>>

Threads == 1..NThreads

ThreadsIdle ==
  /\ tpc = [t \in Threads |-> "idle"]
  /\ targ = [t \in Threads |-> [op |-> "none"]]
  /\ tret = [t \in Threads |-> <<>>]

Init ==
  /\ trf3 \in Transforms
  /\ mask \in Masks
  /\ input \in Inputs
  /\ call = [op |-> "none"]
  /\ ThreadsIdle

LocalToGlobal ==
  /\ call.op = "none"
  /\ input.kind = "point"
  /\ call' = [op |-> "local_to_global",
              global |-> local_to_global(trf3, mask, input.p, input.d)]
  /\ UNCHANGED <<trf3, mask, input, threads>>

\* global_to_local of the point the last local_to_global returned.
GlobalToLocal ==
  /\ call.op = "local_to_global"
  /\ call' = [op |-> "global_to_local", global |-> call.global,
              local |-> global_to_local(trf3, call.global, input.d)]
  /\ UNCHANGED <<trf3, mask, input, threads>>

BoundToFreeVector ==
  /\ call.op = "none"
  /\ input.kind = "bound"
  /\ call' = [op |-> "bound_to_free_vector",
              free_vec |-> bound_to_free_vector(trf3, mask, input.bound_vec)]
  /\ UNCHANGED <<trf3, mask, input, threads>>

\* free_to_bound_vector of the caller's free vector, or of the vector the
\* last bound_to_free_vector returned.
FreeToBoundVector ==
  /\ \/ call.op = "none" /\ input.kind = "free"
     \/ call.op = "bound_to_free_vector"
  /\ LET f == IF call.op = "none" THEN input.free_vec ELSE call.free_vec
     IN  call' = [op |-> "free_to_bound_vector", free_vec |-> f,
                  bound_vec |-> free_to_bound_vector(trf3, f)]
  /\ UNCHANGED <<trf3, mask, input, threads>>

\* bound_to_free_jacobian of the caller's bound vector; pos is whatever
\* track_helper().pos(bound_vec) yields.
BoundToFreeJacobian ==
  /\ call.op = "none"
  /\ input.kind = "bound"
  /\ \E pos \in Points3 :
       call' = [op |-> "bound_to_free_jacobian", pos |-> pos,
                jac |-> bound_to_free_jacobian(trf3, mask, input.bound_vec, pos)]
  /\ UNCHANGED <<trf3, mask, input, threads>>

FreeToBoundJacobian ==
  /\ call.op = "none"
  /\ input.kind = "free"
  /\ call' = [op |-> "free_to_bound_jacobian",
              jac |-> free_to_bound_jacobian(trf3, mask, input.free_vec)]
  /\ UNCHANGED <<trf3, mask, input, threads>>

\* free_to_bound_jacobian at the free vector the last bound_to_free_vector
\* returned for the caller's bound vector.
FreeToBoundJacobianAtBound ==
  /\ call.op = "bound_to_free_vector"
  /\ call' = [op |-> "free_to_bound_jacobian_at_bound", free_vec |-> call.free_vec,
              to_bound |-> free_to_bound_jacobian(trf3, mask, call.free_vec)]
  /\ UNCHANGED <<trf3, mask, input, threads>>

\* bound_to_free_jacobian of the same bound vector, kept next to the
\* free_to_bound_jacobian just taken at its free vector; pos is the track's
\* global position.
BoundToFreeJacobianAtBound ==
  /\ call.op = "free_to_bound_jacobian_at_bound"
  /\ call' = [op |-> "jacobian_pair", free_vec |-> call.free_vec,
              to_bound |-> call.to_bound,
              to_free |-> bound_to_free_jacobian(trf3, mask, input.bound_vec,
                                                 track_pos(call.free_vec))]
  /\ UNCHANGED <<trf3, mask, input, threads>>

FreeToPathCorrection ==
  /\ call.op = "none"
  /\ input.kind = "free"
  /\ call' = [op |-> "free_to_path_correction",
              path |-> free_to_path_correction(trf3, mask, input.free_vec)]
  /\ UNCHANGED <<trf3, mask, input, threads>>

BoundPosToFreePosDerivative ==
  /\ call.op = "none"
  /\ input.kind = "free"
  /\ call' = [op |-> "bound_pos_to_free_pos_derivative",
              to_free |-> bound_pos_to_free_pos_derivative(
                            trf3, mask, track_pos(input.free_vec),
                            track_dir_free(input.free_vec))]
  /\ UNCHANGED <<trf3, mask, input, threads>>

\* free_pos_to_bound_pos_derivative at the position and direction of the last
\* bound_pos_to_free_pos_derivative.
FreePosToBoundPosDerivative ==
  /\ call.op = "bound_pos_to_free_pos_derivative"
  /\ call' = [op |-> "free_pos_to_bound_pos_derivative",
              to_free |-> call.to_free,
              to_bound |-> free_pos_to_bound_pos_derivative(
                             trf3, mask, track_pos(input.free_vec),
                             track_dir_free(input.free_vec))]
  /\ UNCHANGED <<trf3, mask, input, threads>>

ClosedBin ==
  /\ call.op = "none"
  /\ input.kind = "axis"
  /\ call' = [op |-> "closed_bin", bin |-> closed_bin(input.axis, input.v)]
  /\ UNCHANGED <<trf3, mask, input, threads>>

ClosedRange ==
  /\ call.op = "none"
  /\ input.kind = "axis"
  /\ \E nhood \in 0..MaxNhood :
       call' = [op |-> "closed_range", nhood |-> nhood,
                range |-> closed_range(input.axis, input.v, nhood)]
  /\ UNCHANGED <<trf3, mask, input, threads>>

CircularBin ==
  /\ call.op = "none"
  /\ input.kind = "circular"
  /\ call' = [op |-> "circular_bin", bin |-> circular_bin(input.axis, input.v)]
  /\ UNCHANGED <<trf3, mask, input, threads>>

Next ==
  \/ LocalToGlobal
  \/ GlobalToLocal
  \/ BoundToFreeVector
  \/ FreeToBoundVector
  \/ BoundToFreeJacobian
  \/ FreeToBoundJacobian
  \/ FreeToBoundJacobianAtBound
  \/ BoundToFreeJacobianAtBound
  \/ FreeToPathCorrection
  \/ BoundPosToFreePosDerivative
  \/ FreePosToBoundPosDerivative
  \/ ClosedBin
  \/ ClosedRange
  \/ CircularBin

Spec == Init /\ [][Next]_vars


\* ------------------------------------------------------------------ threads
\* The calls the threads make on the shared surface.
ConcBound ==
  { Column(<<R(1), Norm(-1, 2), -4, 2, R(5), Norm(1, 100)>>),
    Column(<<R(0), R(1), 3, 5, R(0), R(-1)>>) }
ConcFree ==
  { Column(<<R(1), R(-2), Norm(1, 2), R(5), Norm(16, 25), Norm(12, 25),
             Norm(3, 5), Norm(1, 100)>>),
    Column(<<R(0), R(0), R(0), R(0), R(0), Norm(-4, 5), Norm(-3, 5), R(-1)>>) }
ConcCalls ==
  {[op |-> o, vec |-> f] :
     o \in {"free_to_bound_vector", "free_to_bound_jacobian",
            "free_to_path_correction"}, f \in ConcFree}
  \cup {[op |-> o, vec |-> b] :
     o \in {"bound_to_free_vector", "bound_to_free_jacobian"}, b \in ConcBound}

\* The value a call returns.
coordinate_result(T, m, c) ==
  CASE c.op = "free_to_bound_vector" -> free_to_bound_vector(T, c.vec)
    [] c.op = "bound_to_free_vector" -> bound_to_free_vector(T, m, c.vec)
    [] c.op = "bound_to_free_jacobian" ->
         bound_to_free_jacobian(T, m, c.vec, Arr3(Zero, Zero, Zero))
    [] c.op = "free_to_bound_jacobian" -> free_to_bound_jacobian(T, m, c.vec)
    [] c.op = "free_to_path_correction" -> free_to_path_correction(T, m, c.vec)

\* Faulty variant: the call moves the shared transform into the track's position
\* while it computes and leaves it there.
coordinate_call_in_place(T, m, c) ==
  [ret |-> coordinate_result(T, m, c),
   trf3 |-> [T EXCEPT !.tra = Arr3(c.vec[0][0], c.vec[1][0], Zero)],
   mask |-> m, arg |-> c]

\* One call of a coordinate_base member: what it returns and what it leaves in
\* the objects it was handed by reference.  Every member is const and takes
\* the transform, the mask and the vector by const reference; there is no
\* static or global data.
coordinate_call(T, m, c) ==
  [ret |-> coordinate_result(T, m, c), trf3 |-> T, mask |-> m, arg |-> c]

InitConc ==
  /\ trf3 \in Transforms
  /\ mask \in Masks
  /\ input = [kind |-> "none"]
  /\ call = [op |-> "none"]
  /\ ThreadsIdle

\* Thread t enters a call with its own argument vector.
Invoke(t) ==
  /\ tpc[t] = "idle"
  /\ \E c \in ConcCalls : targ' = [targ EXCEPT ![t] = c]
  /\ tpc' = [tpc EXCEPT ![t] = "called"]
  /\ UNCHANGED <<trf3, mask, input, call, tret>>

\* The call of thread t runs: it reads the shared transform and mask.
Execute(t) ==
  /\ tpc[t] = "called"
  /\ LET r == coordinate_call(trf3, mask, targ[t])
     IN  /\ tret' = [tret EXCEPT ![t] = r.ret]
         /\ trf3' = r.trf3
         /\ mask' = r.mask
         /\ targ' = [targ EXCEPT ![t] = r.arg]
  /\ tpc' = [tpc EXCEPT ![t] = "returned"]
  /\ UNCHANGED <<input, call>>

\* Thread t drops the result and is ready for its next call.
Release(t) ==
  /\ tpc[t] = "returned"
  /\ tpc' = [tpc EXCEPT ![t] = "idle"]
  /\ targ' = [targ EXCEPT ![t] = [op |-> "none"]]
  /\ tret' = [tret EXCEPT ![t] = <<>>]
  /\ UNCHANGED <<trf3, mask, input, call>>

NextConc == \E t \in Threads : Invoke(t) \/ Execute(t) \/ Release(t)

SpecConc == InitConc /\ [][NextConc]_vars

\* ------------------------------------------------------------------- claims
ValidTheta(b) == element(b, e_bound_theta, 0) \in 1..5

\* C1: global_to_local(T, local_to_global(T, mask, p, d), d) returns p, for
\* every rigid transform T, local point p, direction d and mask.
C1_PointRoundTrip ==
  call.op = "global_to_local" => call.local = input.p

C1_Witness ==
  /\ call.op = "global_to_local"
  /\ trf3.rot # Identity3
  /\ input.p = Arr2(R(1), Norm(-1, 2))
  /\ call.global # Arr3(R(1), Norm(-1, 2), R(0))

\* C2 as stated: for theta inside (0, pi) and phi of [-pi, pi],
\* free_to_bound_vector(T, bound_to_free_vector(T, mask, b)) = b.
C2_AsStated ==
  (call.op = "free_to_bound_vector" /\ input.kind = "bound"
     /\ ValidTheta(input.bound_vec))
  => call.bound_vec = input.bound_vec

\* C2, amended: the six components are reproduced for theta inside (0, pi)
\* and phi strictly inside (-pi, pi); for phi = -pi or phi = pi, the two
\* angles of the one direction on atan2's branch cut, the five other
\* components are reproduced and the returned phi is pi or -pi.
C2_VectorRoundTrip ==
  (call.op = "free_to_bound_vector" /\ input.kind = "bound"
     /\ ValidTheta(input.bound_vec))
  => LET b == input.bound_vec
         back == call.bound_vec
     IN  IF element(b, e_bound_phi, 0) \in {-6, 6}
         THEN /\ element(back, e_bound_phi, 0) \in {-6, 6}
              /\ [back EXCEPT ![e_bound_phi][0] = element(b, e_bound_phi, 0)] = b
         ELSE back = b

C2_Witness ==
  /\ call.op = "free_to_bound_vector"
  /\ input.kind = "bound"
  /\ trf3.rot # Identity3
  /\ element(input.bound_vec, e_bound_theta, 0) = 2
  /\ element(input.bound_vec, e_bound_phi, 0) = -4
  /\ element(input.bound_vec, e_bound_loc0, 0) = R(1)
  /\ call.bound_vec = input.bound_vec

\* C3: bound_to_free_vector returns position = T applied to (loc0, loc1, 0),
\* time = b.time, direction = (sin(theta)cos(phi), sin(theta)sin(phi),
\* cos(theta)) and qOverP = b.qOverP; under the identity transform the
\* position is exactly (loc0, loc1, 0).
C3_BoundToFreeLayout ==
  call.op = "bound_to_free_vector" =>
    LET b == input.bound_vec
        f == call.free_vec
        l0 == b[0][0]
        l1 == b[1][0]
        st == Sin(b[3][0])
        ct == Cos(b[3][0])
        sp == Sin(b[2][0])
        cp == Cos(b[2][0])
    IN  /\ DOMAIN f = 0..7
        /\ \A i \in 0..2 :
             f[i][0] = Add(Add(Mul(trf3.rot[i][0], l0), Mul(trf3.rot[i][1], l1)),
                           trf3.tra[i])
        /\ f[3][0] = b[4][0]
        /\ f[4][0] = Mul(st, cp)
        /\ f[5][0] = Mul(st, sp)
        /\ f[6][0] = ct
        /\ f[7][0] = b[5][0]
        /\ (trf3.rot = Identity3 /\ trf3.tra = Arr3(Zero, Zero, Zero))
             => (f[0][0] = l0 /\ f[1][0] = l1 /\ f[2][0] = Zero)

C3_Witness ==
  /\ call.op = "bound_to_free_vector"
  /\ trf3.rot = Identity3
  /\ input.bound_vec = Column(<<R(1), Norm(-1, 2), 1, 2, R(5), Norm(1, 100)>>)
  /\ call.free_vec = Column(<<R(1), Norm(-1, 2), R(0), R(5), Norm(16, 25),
                              Norm(12, 25), Norm(3, 5), Norm(1, 100)>>)

\* C4: bound_to_free_jacobian returns the 8x6 matrix whose non-zero entries
\* are the 3x2 block of the reference frame's columns 0 and 1 at (pos0, loc0),
\* (time, time) = 1, (dir0, phi) = -sin(theta)sin(phi), (dir0, theta) =
\* cos(theta)cos(phi), (dir1, phi) = sin(theta)cos(phi), (dir1, theta) =
\* cos(theta)sin(phi), (dir2, theta) = -sin(theta) and (qOverP, qOverP) = 1;
\* every other entry, (dir2, phi) included, is zero.
C4_BoundToFreeJacobian ==
  call.op = "bound_to_free_jacobian" =>
    LET b == input.bound_vec
        st == Sin(b[e_bound_theta][0])
        ct == Cos(b[e_bound_theta][0])
        sp == Sin(b[e_bound_phi][0])
        cp == Cos(b[e_bound_phi][0])
        expected ==
          [i \in 0..7 |-> [j \in 0..5 |->
            IF i \in e_free_pos0..e_free_pos2 /\ j \in e_bound_loc0..e_bound_loc1
              THEN trf3.rot[i - e_free_pos0][j - e_bound_loc0]
            ELSE IF i = e_free_time /\ j = e_bound_time THEN One
            ELSE IF i = e_free_dir0 /\ j = e_bound_phi THEN Neg(Mul(st, sp))
            ELSE IF i = e_free_dir0 /\ j = e_bound_theta THEN Mul(ct, cp)
            ELSE IF i = e_free_dir1 /\ j = e_bound_phi THEN Mul(st, cp)
            ELSE IF i = e_free_dir1 /\ j = e_bound_theta THEN Mul(ct, sp)
            ELSE IF i = e_free_dir2 /\ j = e_bound_theta THEN Neg(st)
            ELSE IF i = e_free_qoverp /\ j = e_bound_qoverp THEN One
            ELSE Zero]]
    IN  call.jac = expected

C4_Witness ==
  /\ call.op = "bound_to_free_jacobian"
  /\ trf3.rot # Identity3
  /\ input.bound_vec[e_bound_theta][0] = 2
  /\ input.bound_vec[e_bound_phi][0] = -1
  /\ call.jac[e_free_dir0][e_bound_phi] = Norm(12, 25)
  /\ call.jac[e_free_dir2][e_bound_theta] = Norm(-4, 5)
  /\ call.jac[e_free_dir2][e_bound_phi] = Zero

\* The sine of theta of a free vector's (unit) direction.
SinThetaOf(f) == getter_perp(track_dir_free(f))

\* C5: for a free vector whose direction has sin(theta) # 0,
\* free_to_bound_jacobian returns the 6x8 matrix whose non-zero entries are
\* the 2x3 block of free_pos_to_bound_pos_derivative at (loc0, pos0),
\* (time, time) = 1, (phi, dir0) = -sin(phi)/sin(theta), (phi, dir1) =
\* cos(phi)/sin(theta), (theta, dir0) = cos(phi)cos(theta), (theta, dir1) =
\* sin(phi)cos(theta), (theta, dir2) = -sin(theta) and (qOverP, qOverP) = 1,
\* with phi and theta those of the free direction (x, y, z): sin(theta) =
\* sqrt(x^2 + y^2), cos(theta) = z, cos(phi) = x/sin(theta), sin(phi) =
\* y/sin(theta); every other entry, (phi, dir2) included, is zero.
C5_FreeToBoundJacobian ==
  (call.op = "free_to_bound_jacobian" /\ SinThetaOf(input.free_vec) # Zero) =>
    LET f == input.free_vec
        st == SinThetaOf(f)
        ct == f[e_free_dir2][0]
        cp == Div(f[e_free_dir0][0], st)
        sp == Div(f[e_free_dir1][0], st)
        expected ==
          [i \in 0..5 |-> [j \in 0..7 |->
            IF i \in e_bound_loc0..e_bound_loc1 /\ j \in e_free_pos0..e_free_pos2
              THEN trf3.rot[j - e_free_pos0][i - e_bound_loc0]
            ELSE IF i = e_bound_time /\ j = e_free_time THEN One
            ELSE IF i = e_bound_phi /\ j = e_free_dir0 THEN Neg(Div(sp, st))
            ELSE IF i = e_bound_phi /\ j = e_free_dir1 THEN Div(cp, st)
            ELSE IF i = e_bound_theta /\ j = e_free_dir0 THEN Mul(cp, ct)
            ELSE IF i = e_bound_theta /\ j = e_free_dir1 THEN Mul(sp, ct)
            ELSE IF i = e_bound_theta /\ j = e_free_dir2 THEN Neg(st)
            ELSE IF i = e_bound_qoverp /\ j = e_free_qoverp THEN One
            ELSE Zero]]
    IN  call.jac = expected

C5_Witness ==
  /\ call.op = "free_to_bound_jacobian"
  /\ trf3.rot # Identity3
  /\ track_dir_free(input.free_vec) = UnitDir(4, 1)
  /\ call.jac[e_bound_phi][e_free_dir0] = Norm(-4, 3)
  /\ call.jac[e_bound_phi][e_free_dir1] = R(-1)
  /\ call.jac[e_bound_phi][e_free_dir2] = Zero

\* The reference frame's z axis (column 2 of the rotation) times the direction.
DzOf(f) ==
  Add(Add(Mul(trf3.rot[0][2], f[e_free_dir0][0]),
          Mul(trf3.rot[1][2], f[e_free_dir1][0])),
      Mul(trf3.rot[2][2], f[e_free_dir2][0]))

\* C6: for dz = n . direction # 0, n being column 2 of the transform's
\* rotation, free_to_path_correction returns the 1x8 row whose columns
\* pos0..pos2 are (-1/dz) * n and whose five other columns are zero.
C6_FreeToPathCorrection ==
  (call.op = "free_to_path_correction" /\ DzOf(input.free_vec) # Zero) =>
    LET dz == DzOf(input.free_vec)
    IN  call.path =
          [i \in 0..0 |-> [j \in 0..7 |->
             IF j \in e_free_pos0..e_free_pos2
             THEN Neg(Div(trf3.rot[j - e_free_pos0][2], dz))
             ELSE Zero]]

C6_Witness ==
  /\ call.op = "free_to_path_correction"
  /\ trf3.rot[0][2] = Norm(-2, 3)
  /\ track_dir_free(input.free_vec) = UnitDir(1, 2)
  /\ track_pos(input.free_vec) # Arr3(Zero, Zero, Zero)
  /\ DzOf(input.free_vec) = Norm(-23, 75)
  /\ call.path[0][e_free_pos0] = Norm(-50, 23)
  /\ call.path[0][e_free_dir0] = Zero

\* C7: free_pos_to_bound_pos_derivative (2x3) is the transpose of
\* bound_pos_to_free_pos_derivative (3x2) at the same transform, mask,
\* position and direction, entry by entry.
C7_DerivativeTranspose ==
  call.op = "free_pos_to_bound_pos_derivative" =>
    /\ DOMAIN call.to_bound = 0..1
    /\ DOMAIN call.to_free = 0..2
    /\ \A i \in 0..1 :
         /\ DOMAIN call.to_bound[i] = 0..2
         /\ \A j \in 0..2 :
              /\ DOMAIN call.to_free[j] = 0..1
              /\ call.to_bound[i][j] = call.to_free[j][i]

C7_Witness ==
  /\ call.op = "free_pos_to_bound_pos_derivative"
  /\ call.to_free[0][1] = Norm(-3, 5)
  /\ call.to_free[1][0] = Norm(3, 5)
  /\ call.to_bound[1][0] = Norm(-3, 5)
  /\ call.to_bound[0][1] = Norm(3, 5)

BinEdge(ax, k) ==
  Add(ax.min, Div(Mul(R(k), Sub(ax.max, ax.min)), R(ax.kDIM)))

\* C10: closed<kDIM>::bin(v) is an index of 0 .. kDIM-1: 0 for v < _min,
\* kDIM-1 for v >= _max, and otherwise floor((v - _min)/(_max - _min) * kDIM),
\* the bin whose edges enclose v.
C10_ClosedBin ==
  call.op = "closed_bin" =>
    LET ax == input.axis
        v == input.v
    IN  /\ call.bin \in 0..(ax.kDIM - 1)
        /\ Less(v, ax.min) => call.bin = 0
        /\ ~Less(v, ax.max) => call.bin = ax.kDIM - 1
        /\ (~Less(v, ax.min) /\ Less(v, ax.max)) =>
             /\ ~Less(v, BinEdge(ax, call.bin))
             /\ Less(v, BinEdge(ax, call.bin + 1))

C10_Witness ==
  /\ call.op = "closed_bin"
  /\ input.axis.kDIM = 4
  /\ input.v = Norm(1, 3)
  /\ call.bin = 2

Max(a, b) == IF a >= b THEN a ELSE b
Min(a, b) == IF a <= b THEN a ELSE b
ValidBins(ax) == {unsigned_int(k) : k \in 0..(ax.kDIM - 1)}

\* C12: for a closed axis, every value v and every neighbourhood size nhood,
\* range(v, nhood) returns min_bin = max(ibin - nhood, 0) and
\* max_bin = min(ibin + nhood, kDIM - 1), ibin being the raw bin index of v,
\* and both lie in [0, kDIM - 1], also when ibin < nhood and when ibin < 0.
C12_ClosedRange ==
  call.op = "closed_range" =>
    LET ax == input.axis
        ibin == raw_bin(ax, input.v)
    IN  /\ call.range[1] = unsigned_int(Max(ibin - call.nhood, 0))
        /\ call.range[2] = unsigned_int(Min(ibin + call.nhood, ax.kDIM - 1))
        /\ call.range[1] \in ValidBins(ax)
        /\ call.range[2] \in ValidBins(ax)

\* C13: for a circular axis and every value v whose raw bin index ibin
\* satisfies -kDIM <= ibin < 2 * kDIM, bin(v) returns ibin mod kDIM, a valid
\* index in [0, kDIM - 1].
C13_CircularBin ==
  call.op = "circular_bin" =>
    LET ax == input.axis
        ibin == raw_bin(ax, input.v)
    IN  (-ax.kDIM <= ibin /\ ibin < 2 * ax.kDIM)
        => /\ call.bin = unsigned_int(ibin % ax.kDIM)
           /\ call.bin \in ValidBins(ax)

\* The (i, j) entry of the product a * b, summed over the inner index 0..l.
RECURSIVE product_entry(_, _, _, _, _)
product_entry(a, b, i, j, l) ==
  IF l < 0 THEN Zero
  ELSE Add(product_entry(a, b, i, j, l - 1), Mul(a[i][l], b[l][j]))

\* The product of an n x k matrix and a k x m matrix.
product(a, b, n, k, m) ==
  [i \in 0..(n - 1) |-> [j \in 0..(m - 1) |-> product_entry(a, b, i, j, k - 1)]]

identity(n) == [i \in 0..(n - 1) |-> [j \in 0..(n - 1) |-> IF i = j THEN One ELSE Zero]]

\* C14: for every transform (its rotation orthonormal) and every bound vector
\* b with theta strictly inside (0, pi), the 6x6 product of
\* free_to_bound_jacobian at bound_to_free_vector(b) and
\* bound_to_free_jacobian at b is the identity matrix.
C14_JacobianInversePair ==
  (call.op = "jacobian_pair" /\ ValidTheta(input.bound_vec)) =>
    product(call.to_bound, call.to_free, e_bound_size, e_free_size, e_bound_size)
      = identity(e_bound_size)

C14_Witness ==
  /\ call.op = "jacobian_pair"
  /\ trf3.rot # Identity3
  /\ input.bound_vec[e_bound_theta][0] = 2
  /\ input.bound_vec[e_bound_phi][0] = -1
  /\ call.to_bound[e_bound_phi][e_free_dir0] = Norm(3, 4)
  /\ call.to_free[e_free_dir0][e_bound_phi] = Norm(12, 25)
  /\ product(call.to_bound, call.to_free, e_bound_size, e_free_size, e_bound_size)
       [e_bound_phi][e_bound_phi] = One

====
